---- MODULE Spec2Model ----
(***************************************************************************)
(* A model of WikiSync (src/wikisync.py): one synchronization cycle        *)
(* (WikiSync.sync) as a sequential process over the four managed           *)
(* directories, with the unpacker (_unpack_file) and the retention pass    *)
(* (_cleanup_old_files) it calls, started from the command line (main with *)
(* --sync) or by the scheduler loop (WikiSync.run_service).                *)
(*                                                                         *)
(* A file name is the sequence of its dot-separated parts:                 *)
(* <<"a", "bz2">> is a.bz2.  A directory is the sequence of its path       *)
(* components.  The remote side (listing page, HEAD probe, GET body) is    *)
(* the environment: its answers are inputs drawn in the actions.           *)
(***************************************************************************)
EXTENDS Integers, Sequences, FiniteSets, TLC

(* ------------------------------ bounds -------------------------------- *)
\* Largest value of the clock (time is counted in days).
MaxTime == 2
\* Largest byte size the remote side advertises or delivers.
MaxSize == 1
\* Number of sync() calls that are followed.
MaxCycles == 2
\* Number of failures the environment injects in one run (a resource
\* shortage, a failed request or probe, an I/O error).
MaxFaults == 1
\* Largest retention.keep_versions that is tried.
MaxKeep == 1
\* retention.max_age_days of the configuration that is tried.
MaxAgeDays == 1

\* The archive names the listing page can expose, in the order of the page.
Listing == << <<"a", "bz2">>, <<"a", "gz">>, <<"b", "gz">> >>
Names == { Listing[i] : i \in 1..Len(Listing) }

(* --------------------------- configuration ---------------------------- *)
\* download.directory
download_dir == <<"opt", "wikipedia", "data">>
\* download.unpacked_directory of the default configuration
default_unpacked_dir == <<"opt", "wikipedia", "unpacked">>
\* an unpacked directory located under the download directory
nested_unpacked_dir == <<"opt", "wikipedia", "data", "unpacked">>

\* download.canonical_directory of the default configuration
default_canonical_dir == <<"opt", "wikipedia", "latest">>
\* a canonical directory located under the download directory
nested_canonical_dir == <<"opt", "wikipedia", "data", "latest">>

\* The configurations that are tried.  With cleanup_after_sync off
\* keep_versions is read by nothing, and the places of the unpacked and the
\* canonical directory matter only when files are unpacked and cleaned up,
\* so one value of each is enough elsewhere.  At most one of the two
\* directories is put under the download directory.
Configs ==
    { c \in [ keep_versions         : 0..MaxKeep,
              max_age_days          : {MaxAgeDays},
              cleanup_after_sync    : BOOLEAN,
              unpack_after_download : BOOLEAN,
              unpacked_directory    : {default_unpacked_dir,
                                       nested_unpacked_dir},
              canonical_directory   : {default_canonical_dir,
                                       nested_canonical_dir} ] :
        /\ ~c.cleanup_after_sync => c.keep_versions = MaxKeep
        /\ ~(c.cleanup_after_sync /\ c.unpack_after_download)
              => /\ c.unpacked_directory = default_unpacked_dir
                 /\ c.canonical_directory = default_canonical_dir
        /\ c.unpacked_directory = default_unpacked_dir
              \/ c.canonical_directory = default_canonical_dir }

AllDirs == {"download", "temp", "unpacked", "canonical"}

(* ------------------------------ paths --------------------------------- *)
\* PurePath.suffix: the last dot-separated part, "" when there is none.
suffix(f) == IF Len(f) > 1 THEN f[Len(f)] ELSE ""

\* PurePath.stem: the name without its last suffix.
stem(f) == IF Len(f) > 1 THEN SubSeq(f, 1, Len(f) - 1) ELSE f

CompressedSuffixes == {"bz2", "gz"}

\* p is d or lies below d (what download_dir.rglob('*') walks).
IsUnder(p, d) == Len(p) >= Len(d) /\ SubSeq(p, 1, Len(d)) = d

(* -------------------------- directory contents ------------------------ *)
\* A directory's content is a function from the names present to files.
Put(d, n, file) == (n :> file) @@ d
Remove(d, n) == [m \in (DOMAIN d) \ {n} |-> d[m]]
Empty == [m \in {} |-> 0]

VARIABLES
    config,            \* self.config
    args,              \* the command the program is run with: sync or service
    now,               \* the clock, in days
    cycle,             \* how many times sync() has been entered
    faults,            \* how many failures the environment has injected
    nolength,          \* the links whose HEAD response has no Content-Length
    writes,            \* how many files have been written so far
    dirs,              \* which of the four directories exist
    download,          \* download.directory: name -> [size, data, mtime]
    temp,              \* download.temp_directory: name -> [size, data]
    unpacked,          \* unpacked_directory: stem -> [data, complete, mtime]
    canonical,         \* canonical_directory: stem -> [data, complete, mtime]
    pc,                \* position inside sync(); "done" between calls
    result,            \* outcome of the last sync(): none/true/false/raised
    dump_info,         \* sync's dump_info: filename -> advertised size
    pending,           \* the part of dump_info.items() not yet iterated
    success_count,     \* sync's success_count
    downloaded_files,  \* sync's downloaded_files
    todo,              \* the part of downloaded_files not yet iterated
    cur,               \* compressed_path of the running _unpack_file call
    service,           \* the process: "off", or where run_service is
    next_run,          \* the day the scheduled job is next due (0: no job)
    active,            \* how many calls of sync() are in progress
    hist               \* observations of the run (history, read by no action)

vars == << config, args, now, cycle, faults, nolength, writes, dirs,
           download, temp, unpacked,
           canonical, pc, result, dump_info, pending, success_count,
           downloaded_files, todo, cur, service, next_run, active, hist >>

fsvars == << download, temp, unpacked, canonical >>
loopvars == << dump_info, pending, success_count, downloaded_files, todo, cur >>
svcvars == << service, next_run, active >>

\* The files and directories of the four managed locations.
FS == [ dirs |-> dirs, download |-> download, temp |-> temp,
        unpacked |-> unpacked, canonical |-> canonical ]

NoFS == [ dirs |-> {}, download |-> Empty, temp |-> Empty,
          unpacked |-> Empty, canonical |-> Empty ]

\* History of the current cycle, reset when sync() is entered.
FreshCycle(prev, lastGood) ==
    [ start        |-> FS,       \* the filesystem when sync() was entered
      gate         |-> "none",   \* what _check_resources returned
      resolved     |-> 0,        \* calls of _get_dump_info
      fetched      |-> {},       \* filenames passed to _download_file
      failed       |-> {},       \* filenames whose _download_file returned False
      promoted     |-> {},       \* filenames whose temp file was renamed into place
      skipped      |-> {},       \* filenames that took the up-to-date branch
      exact        |-> TRUE,     \* every fetch delivered the advertised size
      unpackCalls  |-> {},       \* filenames passed to _unpack_file
      unpackOk     |-> {},       \* filenames whose _unpack_file returned True
      justUnpacked |-> << >>,    \* <<name, payload>> of the call that just returned True
      justFailed   |-> << >>,    \* <<name>> of the call that just returned False
      canonBefore  |-> << >>,    \* the canonical file of that name when the call began
      cleaned      |-> FALSE,    \* _cleanup_old_files ran
      cleanups     |-> 0,        \* calls of _cleanup_old_files
      beforeClean  |-> NoFS,     \* the filesystem when _cleanup_old_files was entered
      delFailed    |-> FALSE,    \* some unlink of the retention pass raised
      prev         |-> prev,     \* the previous cycle: its dump_info and outcome
      lastGood     |-> lastGood ]  \* stem -> payload of its latest successful unpack

NoPrev == [ dump_info |-> Empty, ok |-> FALSE ]

Init ==
    /\ config \in Configs
    /\ args \in {"sync", "service"}
    /\ now = 0
    /\ cycle = 0
    /\ faults = 0
    /\ nolength = {}
    /\ writes = 0
    /\ dirs \in { {}, {"download"} }
    /\ download = Empty
    /\ temp = Empty
    /\ unpacked = Empty
    /\ canonical = Empty
    /\ pc = "done"
    /\ result = "none"
    /\ dump_info = Empty
    /\ pending = << >>
    /\ success_count = 0
    /\ downloaded_files = << >>
    /\ todo = << >>
    /\ cur = << >>
    /\ service = "off"
    /\ next_run = 0
    /\ active = 0
    /\ hist = [ FreshCycle(NoPrev, Empty) EXCEPT !.start = [ dirs |-> dirs,
                    download |-> Empty, temp |-> Empty, unpacked |-> Empty,
                    canonical |-> Empty ] ]


(* --------------------------- helpers ---------------------------------- *)
\* The links of S in the order the page lists them.
InPageOrder(S) == SelectSeq(Listing, LAMBDA f : f \in S)

\* The previous cycle as the next one sees it.
ThisCycle == [ dump_info |-> dump_info,
               ok |-> (result = "true" /\ hist.exact) ]

\* The environment injects n failures in this step.
Inject(n) == /\ faults + n <= MaxFaults
             /\ faults' = faults + n

\* The scheduled job fires every day at sync.time: registered or run on day
\* t, it is next due on day t + 1.
schedule_next_run(t) == t + 1

\* Leaving sync() with a return value or an exception.  Under run_service a
\* return leads into (or back into) the loop, where a job that has run is
\* scheduled again; an exception is caught nowhere and ends the process.
Leave(r) ==
    /\ pc' = "done"
    /\ result' = r
    /\ active' = active - 1
    /\ service' = IF service = "off" \/ r = "raised" THEN "off" ELSE "loop"
    /\ next_run' = IF service = "off" \/ r = "raised" THEN 0
                   ELSE IF service = "loop" THEN schedule_next_run(now)
                   ELSE next_run

(* --------------------------- _check_resources ------------------------- *)
\* memory_low: memory.available < max_memory_mb * 1024 * 1024
\* disk_low:   free_gb < disk_space_threshold_gb
\* psutil.disk_usage raises when the download directory does not exist.
check_resources(memory_low, dir_exists, disk_low) ==
    IF memory_low THEN "false"
    ELSE IF ~dir_exists THEN "raised"
    ELSE IF disk_low THEN "false"
    ELSE "true"

(* ------------------------------ sync ---------------------------------- *)
\* A call of sync() begins.
EnterSync ==
    /\ cycle < MaxCycles
    /\ cycle' = cycle + 1
    /\ active' = active + 1
    /\ pc' = "check"
    /\ dump_info' = Empty
    /\ pending' = << >>
    /\ success_count' = 0
    /\ downloaded_files' = << >>
    /\ todo' = << >>
    /\ cur' = << >>
    /\ hist' = FreshCycle(ThisCycle, hist.lastGood)
    /\ UNCHANGED << args, nolength, now, faults, writes, dirs, fsvars,
                    result >>

\* self._load_config() of a new process: the configuration file as it was,
\* or as the operator has edited it since the last run (unpacking turned
\* off).
load_config(c) == { c, [c EXCEPT !.unpack_after_download = FALSE] }

\* main with --sync: the process loads the configuration, makes one call of
\* sync() and exits.
StartSync ==
    /\ args = "sync"
    /\ pc = "done"
    /\ service = "off"
    /\ config' \in load_config(config)
    /\ EnterSync
    /\ UNCHANGED << service, next_run >>

(* ---------------------------- run_service ----------------------------- *)
\* main with --service: run_service registers the job and makes the initial
\* call of sync().  The process is started, or started again after it ended.
RunService ==
    /\ args = "service"
    /\ pc = "done"
    /\ service = "off"
    /\ service' = "initial"
    /\ next_run' = schedule_next_run(now)
    /\ EnterSync
    /\ UNCHANGED config

\* A scheduler that evaluates the triggers whatever is running.
loop_idle_always(svc, p) == svc # "off"

\* Control is in the while loop of run_service, between two calls: the
\* initial sync() and the jobs are called synchronously, so nothing is
\* running.
loop_idle(svc, p) == svc = "loop" /\ p = "done"

\* schedule.run_pending() in the loop finds the job due and runs it.
RunPending ==
    /\ loop_idle(service, pc)
    /\ now >= next_run
    /\ EnterSync
    /\ UNCHANGED << config, service, next_run >>

\* A gate whose refusal is ignored.
insufficient_never(r) == FALSE

\* not self._check_resources()
insufficient(r) == r = "false"

\* if not self._check_resources(): return False
CheckResources ==
    /\ pc = "check"
    /\ \E memory_low \in BOOLEAN, disk_low \in BOOLEAN :
         LET r == check_resources(memory_low, "download" \in dirs, disk_low)
         IN  /\ Inject(IF memory_low \/ disk_low THEN 1 ELSE 0)
             /\ hist' = [hist EXCEPT !.gate = r]
             /\ IF r = "raised" THEN Leave("raised")
                ELSE IF insufficient(r) THEN Leave("false")
                ELSE pc' = "mkdir" /\ UNCHANGED << result, svcvars >>
    /\ UNCHANGED << args, nolength, config, now, cycle, writes, dirs, fsvars,
                    loopvars >>

\* The four mkdir(parents=True, exist_ok=True) calls.
MkDirs ==
    /\ pc = "mkdir"
    /\ dirs' = AllDirs
    /\ pc' = "catalog"
    /\ UNCHANGED << svcvars, args, nolength, config, now, cycle, faults,
                    writes, fsvars, result, loopvars, hist >>

\* An emptiness test that never fires.
no_dump_info_never(d) == FALSE

\* not dump_info
no_dump_info(d) == DOMAIN d = {}

\* dump_info = self._get_dump_info(); if not dump_info: return False
\* The listing fetch fails (the mapping is empty) or yields the links that
\* match the allow-list, each with the size its HEAD probe gave, in the
\* order of the page.  The probe gives 0 when the request fails and when the
\* response has no Content-Length; a server that sends none for a link may
\* go on sending none for it.
GetDumpInfo ==
    /\ pc = "catalog"
    /\ \E listing_ok \in BOOLEAN :
       \E S \in SUBSET Names :
       \E sizes \in [S -> 0..MaxSize] :
         LET d == IF listing_ok THEN sizes ELSE Empty
             newly == { f \in S \ nolength : sizes[f] = 0 }
         IN  /\ ~listing_ok => S = {}
             /\ \A f \in S \cap nolength : sizes[f] = 0
             /\ Inject(IF listing_ok THEN Cardinality(newly) ELSE 1)
             /\ \E lasting \in SUBSET newly : nolength' = nolength \cup lasting
             /\ dump_info' = d
             /\ hist' = [hist EXCEPT !.resolved = @ + 1]
             /\ IF no_dump_info(d)
                THEN Leave("false") /\ pending' = << >>
                ELSE /\ pc' = "files"
                     /\ pending' = InPageOrder(S)
                     /\ UNCHANGED << result, svcvars >>
    /\ UNCHANGED << args, config, now, cycle, writes, dirs, fsvars,
                    success_count, downloaded_files, todo, cur >>

\* if local_path.exists(): ... if local_size == info['size']
up_to_date(dir, f, size) == f \in DOMAIN dir /\ dir[f].size = size

\* An up-to-date branch that does not record the file.
skip_no_append(files, f) == files

\* The up-to-date branch: downloaded_files.append(local_path)
skip_append(files, f) == Append(files, f)

\* The up-to-date branch of the loop over dump_info.items().
SkipUpToDate ==
    /\ pc = "files"
    /\ pending # << >>
    /\ LET f == Head(pending) IN
         /\ up_to_date(download, f, dump_info[f])
         /\ downloaded_files' = skip_append(downloaded_files, f)
         /\ success_count' = success_count + 1
         /\ hist' = [hist EXCEPT !.skipped = @ \cup {f}]
    /\ pending' = Tail(pending)
    /\ UNCHANGED << svcvars, args, nolength, config, now, cycle, faults,
                    writes, dirs, fsvars, pc, result, dump_info, todo, cur >>

\* The complete GET body of f written to disk: size bytes that encode, in
\* the codec of its suffix, the payload the remote side publishes for f at
\* the time (identified by the file and the cycle that fetched it).
Body(f, size) ==
    [ size |-> size,
      data |-> [enc |-> suffix(f), payload |-> <<f, cycle>>,
                complete |-> TRUE] ]

\* The sizes a complete body can have: the advertised one, any when the
\* HEAD probe gave none.
Delivered(advertised) ==
    IF advertised > 0 THEN {advertised} ELSE 0..MaxSize

\* What a transfer that broke off leaves in the temp file.
Truncated(f) ==
    [ size |-> 0,
      data |-> [enc |-> suffix(f), payload |-> <<f, cycle>>,
                complete |-> FALSE] ]

\* The modification time of a file written now: the day, and within the
\* day the rank of the write (files are written one after the other).
WriteTime == <<now, writes>>

\* temp_path.rename(local_path): the temp file becomes the compressed file.
promote(dir, f, file) ==
    Put(dir, f, [size |-> file.size, data |-> file.data, mtime |-> WriteTime])

\* A rename that does not look at what _download_file returned.
rename_always(ok, dir, f, file) == promote(dir, f, file)

\* if self._download_file(...): temp_path.rename(local_path)
rename_if(ok, dir, f, file) == IF ok THEN promote(dir, f, file) ELSE dir

\* A loop that gives up at the first failed download.
after_failure_break(p) == << >>

\* else: self.logger.error(...), and the loop goes on with the next item.
after_failure(p) == Tail(p)

\* _download_file returns True and the temp file is renamed into place.
DownloadOk ==
    /\ pc = "files"
    /\ pending # << >>
    /\ LET f == Head(pending) IN
         /\ ~up_to_date(download, f, dump_info[f])
         /\ \E size \in Delivered(dump_info[f]) :
              /\ download' = rename_if(TRUE, download, f, Body(f, size))
              /\ hist' = [hist EXCEPT !.fetched = @ \cup {f},
                                      !.promoted = @ \cup {f},
                                      !.exact = @ /\ (size = dump_info[f])]
         /\ temp' = Remove(temp, f)
         /\ downloaded_files' = Append(downloaded_files, f)
         /\ success_count' = success_count + 1
    /\ pending' = Tail(pending)
    /\ writes' = writes + 1
    /\ UNCHANGED << svcvars, args, nolength, config, now, cycle, faults, dirs,
                    unpacked, canonical, pc, result, dump_info, todo, cur >>

\* _download_file returns True but temp_path.rename raises (another
\* filesystem, permissions): the exception leaves sync().
DownloadRenameRaises ==
    /\ pc = "files"
    /\ pending # << >>
    /\ LET f == Head(pending) IN
         /\ ~up_to_date(download, f, dump_info[f])
         /\ \E size \in Delivered(dump_info[f]) :
              /\ temp' = Put(temp, f, Body(f, size))
              /\ hist' = [hist EXCEPT !.fetched = @ \cup {f},
                                      !.exact = @ /\ (size = dump_info[f])]
    /\ Leave("raised")
    /\ Inject(1)
    /\ UNCHANGED << args, nolength, config, now, cycle, writes, dirs,
                    download, unpacked, canonical, loopvars >>

\* A failure branch that puts the file on the list all the same.
fail_append(files, f) == Append(files, f)

\* else: self.logger.error(...): nothing is put on downloaded_files.
fail_no_append(files, f) == files

\* _download_file returns False: the request failed before the temp file
\* was opened, or the transfer broke off and left a truncated temp file.
DownloadFail ==
    /\ pc = "files"
    /\ pending # << >>
    /\ LET f == Head(pending) IN
         /\ ~up_to_date(download, f, dump_info[f])
         /\ \E opened \in BOOLEAN :
              temp' = IF opened THEN Put(temp, f, Truncated(f)) ELSE temp
         /\ download' = rename_if(FALSE, download, f, Truncated(f))
         /\ hist' = [hist EXCEPT !.fetched = @ \cup {f},
                                 !.failed = @ \cup {f}]
         /\ downloaded_files' = fail_no_append(downloaded_files, f)
    /\ pending' = after_failure(pending)
    /\ Inject(1)
    /\ UNCHANGED << svcvars, args, nolength, config, now, cycle, writes, dirs,
                    unpacked, canonical, pc, result, dump_info, success_count,
                    todo, cur >>

\* The loop over dump_info.items() is over:
\* if self.config['sync']['unpack_after_download'] ...
FilesDone ==
    /\ pc = "files"
    /\ pending = << >>
    /\ IF config.unpack_after_download
       THEN pc' = "unpack" /\ todo' = downloaded_files
       ELSE pc' = "cleanup" /\ UNCHANGED todo
    /\ UNCHANGED << svcvars, args, nolength, config, now, cycle, faults,
                    writes, dirs, fsvars, result, dump_info, pending,
                    success_count, downloaded_files, cur, hist >>


(* ---------------------------- _unpack_file ---------------------------- *)
\* The branch _unpack_file takes on compressed_path.suffix.
unpack_format(f) ==
    IF suffix(f) = "bz2" THEN "bz2"
    ELSE IF suffix(f) = "gz" THEN "gz"
    ELSE "unknown"

\* bz2.open / gzip.open followed by copyfileobj: the payload of an archive
\* of the codec, << >> (an error) for anything else.
decompress(codec, data) ==
    IF data.enc = codec /\ data.complete THEN data.payload ELSE << >>

\* A copy that stops before the content is complete.
copy2_truncated(src) == [ data |-> src.data, complete |-> FALSE,
                          mtime |-> src.mtime ]

\* shutil.copy2(output_path, canonical_path): content and metadata.
copy2(src) == [ data |-> src.data, complete |-> src.complete,
                mtime |-> src.mtime ]

\* if canonical_path.exists(): canonical_path.unlink()
unlink_old(dir, s) == IF s \in DOMAIN dir THEN Remove(dir, s) ELSE dir

\* for file_path in downloaded_files: if file_path.suffix in ['.bz2', '.gz']:
\* self._unpack_file(...), up to the choice of the decompressor.
UnpackNext ==
    /\ pc = "unpack"
    /\ todo # << >>
    /\ LET f == Head(todo) IN
         IF suffix(f) \in CompressedSuffixes
         THEN /\ hist' = [hist EXCEPT
                            !.unpackCalls = @ \cup {f},
                            !.justUnpacked = << >>,
                            !.justFailed = IF unpack_format(f) = "unknown"
                                           THEN <<f>> ELSE << >>,
                            !.canonBefore = IF stem(f) \in DOMAIN canonical
                                            THEN <<canonical[stem(f)]>>
                                            ELSE << >>]
              /\ IF unpack_format(f) = "unknown"
                 THEN pc' = "unpack" /\ cur' = << >>
                 ELSE pc' = "decompress" /\ cur' = f
         ELSE /\ hist' = [hist EXCEPT !.justUnpacked = << >>,
                                      !.justFailed = << >>,
                                      !.canonBefore = << >>]
              /\ UNCHANGED << pc, cur >>
    /\ todo' = Tail(todo)
    /\ UNCHANGED << svcvars, args, nolength, config, now, cycle, faults,
                    writes, dirs, fsvars, result, dump_info, pending,
                    success_count, downloaded_files >>

\* open(output_path, 'wb') and copyfileobj run to the end.
DecompressOk ==
    /\ pc = "decompress"
    /\ LET v == decompress(unpack_format(cur), download[cur].data) IN
         /\ v # << >>
         /\ unpacked' = Put(unpacked, stem(cur),
                            [data |-> v, complete |-> TRUE, mtime |-> WriteTime])
    /\ pc' = "unlink"
    /\ writes' = writes + 1
    /\ UNCHANGED << svcvars, args, nolength, config, now, cycle, faults, dirs,
                    download, temp, canonical, result, loopvars, hist >>

\* The decompression raises part-way: the working copy is left truncated
\* and _unpack_file returns False.
DecompressFail ==
    /\ pc = "decompress"
    /\ unpacked' = Put(unpacked, stem(cur),
                       [data |-> download[cur].data.payload,
                        complete |-> FALSE, mtime |-> WriteTime])
    /\ pc' = "unpack"
    /\ hist' = [hist EXCEPT !.justFailed = <<cur>>]
    /\ cur' = << >>
    /\ Inject(1)
    /\ writes' = writes + 1
    /\ UNCHANGED << svcvars, args, nolength, config, now, cycle, dirs,
                    download, temp, canonical, result, dump_info, pending,
                    success_count, downloaded_files, todo >>

\* if canonical_path.exists(): canonical_path.unlink()
CanonicalUnlink ==
    /\ pc = "unlink"
    /\ canonical' = unlink_old(canonical, stem(cur))
    /\ pc' = "copy"
    /\ UNCHANGED << svcvars, args, nolength, config, now, cycle, faults,
                    writes, dirs, download, temp, unpacked, result, loopvars,
                    hist >>

\* shutil.copy2 has created canonical_path and written part of it.
CopyStart ==
    /\ pc = "copy"
    /\ canonical' = Put(canonical, stem(cur),
                        [data |-> unpacked[stem(cur)].data,
                         complete |-> FALSE, mtime |-> WriteTime])
    /\ pc' = "copying"
    /\ UNCHANGED << svcvars, args, nolength, config, now, cycle, faults,
                    writes, dirs, download, temp, unpacked, result, loopvars,
                    hist >>

\* shutil.copy2 returns and _unpack_file returns True.
CopyFinish ==
    /\ pc = "copying"
    /\ LET s == stem(cur) IN
         /\ canonical' = Put(canonical, s, copy2(unpacked[s]))
         /\ hist' = [hist EXCEPT
                       !.unpackOk = @ \cup {cur},
                       !.justUnpacked = <<cur, unpacked[s].data>>,
                       !.lastGood = Put(@, s, unpacked[s].data)]
    /\ pc' = "unpack"
    /\ cur' = << >>
    /\ UNCHANGED << svcvars, args, nolength, config, now, cycle, faults,
                    writes, dirs, download, temp, unpacked, result, dump_info,
                    pending, success_count, downloaded_files, todo >>

\* shutil.copy2 raises, before or after it created canonical_path;
\* _unpack_file returns False.
CopyFail ==
    /\ pc \in {"copy", "copying"}
    /\ pc' = "unpack"
    /\ hist' = [hist EXCEPT !.justFailed = <<cur>>]
    /\ cur' = << >>
    /\ Inject(1)
    /\ UNCHANGED << svcvars, args, nolength, config, now, cycle, writes, dirs,
                    fsvars, result, dump_info, pending, success_count,
                    downloaded_files, todo >>

\* The loop over downloaded_files is over.
UnpackDone ==
    /\ pc = "unpack"
    /\ todo = << >>
    /\ pc' = "cleanup"
    /\ hist' = [hist EXCEPT !.justUnpacked = << >>,
                            !.justFailed = << >>,
                            !.canonBefore = << >>]
    /\ UNCHANGED << svcvars, args, nolength, config, now, cycle, faults,
                    writes, dirs, fsvars, result, loopvars >>


(* ------------------------- _cleanup_old_files ------------------------- *)
\* file_path.name.startswith('.')
is_hidden(name) == name[1] = ""

\* download_dir.rglob('*') restricted to the regular, non-hidden files: the
\* compressed files, and the working copies and the canonical files when
\* their directory lies under the download directory.
walk(cfg, dl, up, ca) ==
    { p \in { [parent |-> download_dir, name |-> f] : f \in DOMAIN dl }
            \cup
            ( IF IsUnder(cfg.unpacked_directory, download_dir)
              THEN { [parent |-> cfg.unpacked_directory, name |-> n] :
                       n \in DOMAIN up }
              ELSE {} )
            \cup
            ( IF IsUnder(cfg.canonical_directory, download_dir)
              THEN { [parent |-> cfg.canonical_directory, name |-> n] :
                       n \in DOMAIN ca }
              ELSE {} ) :
        ~is_hidden(p.name) }

\* file_path.stat().st_mtime
st_mtime(cfg, p, dl, up, ca) ==
    IF p.parent = download_dir THEN dl[p.name].mtime
    ELSE IF p.parent = cfg.unpacked_directory THEN up[p.name].mtime
    ELSE ca[p.name].mtime

\* The order of a sort without reverse=True: oldest first.
goes_before_oldest(a, b) == a[1] < b[1] \/ (a[1] = b[1] /\ a[2] <= b[2])

\* The sort key order of files.sort(key=mtime, reverse=True): a goes before b.
goes_before(a, b) == a[1] > b[1] \/ (a[1] = b[1] /\ a[2] >= b[2])

\* files.sort(key=lambda x: x[1], reverse=True): every sequence the sort can
\* produce; files of equal mtime stay in the order rglob listed them, which
\* is any order.
RECURSIVE sorted_newest_first(_, _)
sorted_newest_first(S, M) ==
    IF S = {} THEN { << >> }
    ELSE UNION { { <<x>> \o s : s \in sorted_newest_first(S \ {x}, M) } :
                 x \in { y \in S : \A z \in S : goes_before(M[y], M[z]) } }

\* [f for f, _ in files if f.suffix in ['.bz2', '.gz']]
compressed_files(files) ==
    SelectSeq(files, LAMBDA p : suffix(p.name) \in CompressedSuffixes)

\* A filter that forgets the directory.
unpacked_files_any_parent(cfg, files) ==
    SelectSeq(files, LAMBDA p : suffix(p.name) \notin CompressedSuffixes)

\* [f for f, _ in files if f.suffix not in [...] and f.parent == unpacked_dir]
unpacked_files(cfg, files) ==
    SelectSeq(files, LAMBDA p : /\ suffix(p.name) \notin CompressedSuffixes
                                /\ p.parent = cfg.unpacked_directory)

\* files[keep_versions:]
beyond(files, keep) == SubSeq(files, keep + 1, Len(files))

Range(q) == { q[i] : i \in 1..Len(q) }

\* The paths the two deletion loops call unlink() on.
victims(cfg, files) ==
    Range(beyond(compressed_files(files), cfg.keep_versions))
    \cup Range(beyond(unpacked_files(cfg, files), cfg.keep_versions))

\* A directory after the unlink() calls that did not raise.
after_unlink(dir, parent, gone) ==
    [ n \in { m \in DOMAIN dir : [parent |-> parent, name |-> m] \notin gone }
        |-> dir[n] ]

\* A retention pass that also runs inside the loop over dump_info.items().
cleanup_point_early(p) == p \in {"files", "cleanup"}

\* The place of the call in sync(): after the two loops.
cleanup_point(p) == p = "cleanup"

\* if self.config['retention']['cleanup_after_sync']: self._cleanup_old_files()
\* Every unlink() is tried on its own and may raise.
CleanupOldFiles ==
    /\ cleanup_point(pc)
    /\ config.cleanup_after_sync
    /\ LET S == walk(config, download, unpacked, canonical)
           M == [ p \in S |-> st_mtime(config, p, download, unpacked,
                                       canonical) ]
       IN  \E files \in sorted_newest_first(S, M) :
           \E failing \in SUBSET victims(config, files) :
             LET gone == victims(config, files) \ failing IN
               /\ Inject(Cardinality(failing))
               /\ download' = after_unlink(download, download_dir, gone)
               /\ unpacked' = after_unlink(unpacked,
                                           config.unpacked_directory, gone)
               /\ canonical' = after_unlink(canonical,
                                            config.canonical_directory, gone)
               /\ hist' = [hist EXCEPT !.cleaned = TRUE,
                                       !.cleanups = @ + 1,
                                       !.beforeClean = FS,
                                       !.delFailed = (failing # {})]
    /\ pc' = "return"
    /\ UNCHANGED << svcvars, args, nolength, config, now, cycle, writes, dirs,
                    temp, result, loopvars >>

\* cleanup_after_sync is off.
SkipCleanup ==
    /\ pc = "cleanup"
    /\ ~config.cleanup_after_sync
    /\ pc' = "return"
    /\ UNCHANGED << svcvars, args, nolength, config, now, cycle, faults,
                    writes, dirs, fsvars, result, loopvars, hist >>

\* A result that asks for one success only.
all_succeeded_any(count, d) == count >= 1

\* success_count == len(dump_info)
all_succeeded(count, d) == count = Cardinality(DOMAIN d)

\* return success_count == len(dump_info)
Return ==
    /\ pc = "return"
    /\ Leave(IF all_succeeded(success_count, dump_info)
             THEN "true" ELSE "false")
    /\ UNCHANGED << args, nolength, config, now, cycle, faults, writes, dirs,
                    fsvars, loopvars, hist >>

(* ---------------------------- environment ----------------------------- *)
\* A day passes: between two calls of sync() (the loop of run_service
\* sleeps), or while a call is running, at the end of its two loops.
Tick ==
    /\ now < MaxTime
    /\ pc \in {"done", "cleanup"}
    /\ now' = now + 1
    /\ UNCHANGED << svcvars, args, nolength, config, cycle, faults, writes,
                    dirs, fsvars, pc, result, loopvars, hist >>

Next ==
    \/ StartSync
    \/ RunService
    \/ RunPending
    \/ CheckResources
    \/ MkDirs
    \/ GetDumpInfo
    \/ SkipUpToDate
    \/ DownloadOk
    \/ DownloadRenameRaises
    \/ DownloadFail
    \/ FilesDone
    \/ UnpackNext
    \/ DecompressOk
    \/ DecompressFail
    \/ CanonicalUnlink
    \/ CopyStart
    \/ CopyFinish
    \/ CopyFail
    \/ UnpackDone
    \/ CleanupOldFiles
    \/ SkipCleanup
    \/ Return
    \/ Tick

Spec == Init /\ [][Next]_vars


(* ------------------------------ claims -------------------------------- *)
\* Directory d1 and directory d2 agree on the entry n.
Same(d1, d2, n) ==
    /\ (n \in DOMAIN d1) = (n \in DOMAIN d2)
    /\ n \in DOMAIN d1 => d1[n] = d2[n]

\* The files of the compressed kind in a download directory.
CompressedIn(dl) == { f \in DOMAIN dl : suffix(f) \in CompressedSuffixes }

\* Modification time m1 is later than m2.
Later(m1, m2) == m1[1] > m2[1] \/ (m1[1] = m2[1] /\ m1[2] > m2[2])

\* A retention pass has just run and none of its unlink() calls raised.
AfterCleanPass == pc = "return" /\ hist.cleaned /\ ~hist.delFailed

\* C1: idempotence of sync().  When the previous cycle returned success with
\* every fetch delivering the advertised size, and this cycle resolves the
\* same catalog, this cycle calls _download_file for no descriptor.
C1_Idempotence ==
    ( /\ hist.prev.ok
      /\ DOMAIN dump_info # {}
      /\ dump_info = hist.prev.dump_info )
    => hist.fetched = {}

\* C2: once a logical name has been unpacked successfully, its canonical
\* file exists in every later state and holds the complete content of the
\* most recent successful unpack.
C2_CanonicalNeverMissingOrPartial ==
    \A X \in DOMAIN hist.lastGood :
        /\ X \in DOMAIN canonical
        /\ canonical[X].complete
        /\ canonical[X].data = hist.lastGood[X]

\* C3: when _unpack_file has just returned True for the compressed file f,
\* the canonical directory holds a file named stem(f), complete, whose
\* content is the decompressed content of f and the content of the working
\* copy in the unpacked directory.
C3_FreshCanonical ==
    hist.justUnpacked # << >> =>
        LET f == hist.justUnpacked[1]
            X == stem(f)
        IN  /\ X \in DOMAIN canonical
            /\ canonical[X].complete
            /\ canonical[X].data = download[f].data.payload
            /\ canonical[X].data[1] = f
            /\ X \in DOMAIN unpacked
            /\ unpacked[X].complete
            /\ canonical[X].data = unpacked[X].data

\* C3 witness: an unpack has just succeeded over a canonical file that held
\* other content when the cycle began.
C3_Witness ==
    /\ hist.justUnpacked # << >>
    /\ LET X == stem(hist.justUnpacked[1]) IN
         /\ X \in DOMAIN hist.start.canonical
         /\ X \in DOMAIN canonical
         /\ hist.start.canonical[X].data # canonical[X].data

\* C4: after a retention pass with keep_versions = N (no unlink failing), at
\* most N compressed files remain in the download directory and at most N
\* files remain in the unpacked directory, wherever the unpacked directory is.
C4_CountBound ==
    AfterCleanPass =>
        /\ Cardinality(CompressedIn(download)) <= config.keep_versions
        /\ Cardinality(DOMAIN unpacked) <= config.keep_versions

\* C5: after a retention pass (no unlink failing), no compressed file and no
\* unpacked file is older than now - max_age_days.
C5_AgeBound ==
    AfterCleanPass =>
        /\ \A f \in CompressedIn(download) :
             ~(download[f].mtime[1] < now - config.max_age_days)
        /\ \A n \in DOMAIN unpacked :
             ~(unpacked[n].mtime[1] < now - config.max_age_days)

\* The compressed files of dl that have fewer than n later compressed files.
Newest(dl, n) ==
    { f \in CompressedIn(dl) :
        Cardinality({ g \in CompressedIn(dl) :
                        Later(dl[g].mtime, dl[f].mtime) }) < n }

\* The compressed files of dl have pairwise distinct modification times.
DistinctTimes(dl) ==
    \A f, g \in CompressedIn(dl) : f # g => dl[f].mtime # dl[g].mtime

\* C6: after a retention pass in which no unlink failed, over compressed
\* files of pairwise distinct modification times, the keep_versions newest
\* ones are still there, unchanged, and every other one is gone.
C6_KeepsNewest ==
    ( AfterCleanPass /\ DistinctTimes(hist.beforeClean.download) ) =>
        LET before == hist.beforeClean.download IN
        \A f \in CompressedIn(before) :
            IF f \in Newest(before, config.keep_versions)
            THEN f \in DOMAIN download /\ download[f] = before[f]
            ELSE f \notin DOMAIN download

\* C6 witness: a pass that had to keep some compressed files and to delete
\* others.
C6_Witness ==
    /\ AfterCleanPass
    /\ DistinctTimes(hist.beforeClean.download)
    /\ config.keep_versions >= 1
    /\ Cardinality(CompressedIn(hist.beforeClean.download))
         >= config.keep_versions + 2
    /\ Cardinality(CompressedIn(download)) = config.keep_versions

\* C7: when _check_resources reports insufficient resources, sync() returns
\* False at once: _get_dump_info is not called and the files and directories
\* of the four managed locations are what they were when sync() was entered.
C7_ResourceGateAbort ==
    hist.gate = "false" =>
        /\ pc = "done"
        /\ result = "false"
        /\ hist.resolved = 0
        /\ FS = hist.start

\* C7 witness: the gate has refused a cycle while compressed files were
\* present.
C7_Witness ==
    /\ hist.gate = "false"
    /\ pc = "done"
    /\ DOMAIN download # {}
    /\ DOMAIN canonical # {}

\* The catalog resolver has returned an empty mapping in this cycle.
EmptyCatalog == hist.resolved = 1 /\ DOMAIN dump_info = {}

\* C8 as stated: on an empty catalog sync() returns False, nothing is
\* fetched, unpacked or cleaned up, and the files and directories of the four
\* managed locations are the same as before the call.
C8_EmptyCatalogNothingTouched ==
    EmptyCatalog =>
        /\ pc = "done"
        /\ result = "false"
        /\ hist.fetched = {}
        /\ hist.unpackCalls = {}
        /\ ~hist.cleaned
        /\ FS = hist.start

\* C8 amended: on an empty catalog sync() returns False, nothing is fetched,
\* unpacked or cleaned up, and every file of the four managed locations is
\* the same as before the call; the four directories exist afterwards (the
\* missing ones have been created before the catalog was resolved).
C8_EmptyCatalogAbort ==
    EmptyCatalog =>
        /\ pc = "done"
        /\ result = "false"
        /\ hist.fetched = {}
        /\ hist.unpackCalls = {}
        /\ ~hist.cleaned
        /\ download = hist.start.download
        /\ temp = hist.start.temp
        /\ unpacked = hist.start.unpacked
        /\ canonical = hist.start.canonical
        /\ dirs = AllDirs
        /\ hist.start.dirs \subseteq dirs

\* C8 witness: a cycle has ended on an empty catalog while files were
\* present.
C8_Witness ==
    /\ EmptyCatalog
    /\ pc = "done"
    /\ DOMAIN download # {}
    /\ DOMAIN canonical # {}

\* The loop over downloaded_files of this cycle has run to its end.
UnpackLoopOver ==
    \/ pc \in {"cleanup", "return"}
    \/ pc = "done" /\ result \in {"true", "false"} /\ DOMAIN dump_info # {}

Occurrences(q, f) == Cardinality({ i \in 1..Len(q) : q[i] = f })

\* C10: a descriptor of known size whose compressed file was there with that
\* size is, once the cycle has examined it, not fetched, has no temp file
\* created, has its compressed file unchanged, and is counted once.
C10_SkipIsCheap ==
    \A f \in (DOMAIN dump_info) \ Range(pending) :
        ( /\ dump_info[f] > 0
          /\ f \in DOMAIN hist.start.download
          /\ hist.start.download[f].size = dump_info[f] )
        => /\ f \notin hist.fetched
           /\ Same(temp, hist.start.temp, f)
           /\ Same(download, hist.start.download, f)
           /\ Occurrences(downloaded_files, f) = 1
           /\ success_count = Len(downloaded_files)

\* The loop over dump_info.items() of this cycle has run to its end.
FilesLoopOver ==
    \/ pc \in {"unpack", "decompress", "unlink", "copy", "copying",
               "cleanup", "return"}
    \/ pc = "done" /\ result \in {"true", "false"} /\ DOMAIN dump_info # {}

\* C11: a descriptor whose advertised size is 0 never takes the up-to-date
\* branch, whatever the download directory holds, and once the loop has come
\* to it, it has been passed to _download_file.
C11_UnknownSizeNeverSkipped ==
    \A f \in DOMAIN dump_info :
        dump_info[f] = 0 =>
            /\ f \notin hist.skipped
            /\ f \notin Range(pending) => f \in hist.fetched

C13_SuccessMeansCanonical ==
    ( /\ pc = "done"
      /\ result = "true"
      /\ hist.gate = "true"
      /\ config.unpack_after_download )
    => \A f \in DOMAIN dump_info : f \in hist.unpackOk

\* C14: when a cycle that passed the resource gate and resolved a non-empty
\* catalog is over, sync() has returned True if and only if every descriptor
\* was skipped as up to date or fetched and renamed into place, that is, if
\* and only if success_count is the number of descriptors; after a failed
\* download the cycle does not return True: it returns False, or an exception
\* of a later step has left sync().
C14_WholeCycleResult ==
    ( pc = "done" /\ hist.gate = "true" /\ DOMAIN dump_info # {} ) =>
        /\ result = "true"
             <=> DOMAIN dump_info = hist.skipped \cup hist.promoted
        /\ result = "true"
             <=> success_count = Cardinality(DOMAIN dump_info)
        /\ result \in {"true", "false", "raised"}
        /\ hist.failed # {} => result \in {"false", "raised"}
        /\ ( hist.failed # {} /\ pending = << >> ) => result = "false"

\* C14 witness: a cycle in which one descriptor was renamed into place and
\* another one failed has returned False.
C14_Witness ==
    /\ pc = "done"
    /\ hist.gate = "true"
    /\ hist.failed # {}
    /\ hist.promoted # {}
    /\ result = "false"

\* C15: once run_service has been started, the process is never ended by a
\* failure inside a cycle.
C15_ServiceSurvivesFailure ==
    ( args = "service" /\ cycle > 0 ) => service # "off"

\* C16: under run_service at most one call of sync() is in progress at any
\* time, also while the job is due; the initial call is in progress as long
\* as the loop has not been entered.
C16_NonReentrant ==
    /\ active <= 1
    /\ active = 1 <=> pc # "done"
    /\ service = "initial" => active = 1

\* C16 witness: the job has become due while the initial call of sync() is
\* still running.
C16_Witness ==
    /\ service = "initial"
    /\ pc = "cleanup"
    /\ next_run > 0
    /\ now >= next_run
    /\ active = 1

\* C17: an _unpack_file call that returns False leaves the canonical file of
\* its name as it was before the call; once the loop over downloaded_files
\* is over every compressed file on the list has been passed to the unpacker;
\* and a cycle with a failed unpack goes on to the retention pass and
\* returns.
C17_UnpackFailuresIsolated ==
    /\ hist.justFailed # << >> =>
         LET X == stem(hist.justFailed[1]) IN
           IF hist.canonBefore = << >>
           THEN X \notin DOMAIN canonical
           ELSE X \in DOMAIN canonical /\ canonical[X] = hist.canonBefore[1]
    /\ ( config.unpack_after_download
         /\ pc \in {"cleanup", "return"} ) =>
          \A f \in Range(downloaded_files) :
              suffix(f) \in CompressedSuffixes => f \in hist.unpackCalls
    /\ ( pc = "done" /\ hist.unpackCalls # hist.unpackOk ) =>
          /\ result \in {"true", "false"}
          /\ hist.cleaned = config.cleanup_after_sync

\* C18: in one cycle _cleanup_old_files is called at most once, and only
\* when every descriptor has been skipped or passed to _download_file and
\* every file on downloaded_files has been through the unpack loop; before
\* that call no file of the cycle's download or unpacked directory is gone.
C18_RetentionOrdering ==
    /\ hist.cleanups <= 1
    /\ hist.cleaned = (hist.cleanups = 1)
    /\ hist.cleaned =>
         /\ pc \in {"return", "done"}
         /\ pending = << >> /\ todo = << >> /\ cur = << >>
         /\ DOMAIN dump_info = hist.skipped \cup hist.fetched
         /\ config.unpack_after_download =>
              \A f \in Range(downloaded_files) :
                  suffix(f) \in CompressedSuffixes => f \in hist.unpackCalls
    /\ ( ~hist.cleaned /\ pc # "done" ) =>
         /\ DOMAIN hist.start.download \subseteq DOMAIN download
         /\ DOMAIN hist.start.unpacked \subseteq DOMAIN unpacked

\* C18 witness: a retention pass has deleted compressed files in a cycle
\* that fetched and unpacked more than one descriptor.
C18_Witness ==
    /\ pc = "return"
    /\ hist.cleanups = 1
    /\ Cardinality(hist.promoted) >= 2
    /\ Cardinality(hist.unpackOk) >= 2
    /\ DOMAIN download # DOMAIN hist.beforeClean.download

\* C19: when _download_file has returned False for a descriptor and the
\* loop over the catalog is over, every descriptor of the catalog has been
\* skipped or passed to _download_file, every one whose download succeeded
\* has been renamed into place (and is there until the retention pass), and
\* success_count counts the skipped and the renamed ones.
C19_FailureDoesNotStopCycle ==
    ( hist.failed # {} /\ FilesLoopOver ) =>
        /\ DOMAIN dump_info = hist.skipped \cup hist.fetched
        /\ hist.fetched = hist.failed \cup hist.promoted
        /\ success_count = Cardinality(hist.skipped \cup hist.promoted)
        /\ ~hist.cleaned =>
             \A f \in hist.promoted :
                 /\ f \in DOMAIN download
                 /\ download[f].data.payload = <<f, cycle>>

\* C19 witness: the first descriptor of the page failed and the last one has
\* been fetched and renamed into place afterwards.
C19_Witness ==
    /\ pc = "cleanup"
    /\ Listing[1] \in hist.failed
    /\ Listing[Len(Listing)] \in hist.promoted
    /\ success_count >= 1

\* C20: a call of _cleanup_old_files leaves the canonical directory as it
\* was: the same files with the same content, for every keep_versions and
\* every age of the files.
C20_CanonicalNeverPruned ==
    ( pc = "return" /\ hist.cleaned ) =>
        canonical = hist.beforeClean.canonical

\* C20 witness: a pass with keep_versions = 0 over a canonical directory
\* that lies under the download directory and holds a file older than
\* max_age_days has deleted every compressed file.
C20_Witness ==
    /\ pc = "return"
    /\ hist.cleaned
    /\ config.keep_versions = 0
    /\ config.canonical_directory = nested_canonical_dir
    /\ \E X \in DOMAIN canonical :
         canonical[X].mtime[1] < now - config.max_age_days
    /\ DOMAIN hist.beforeClean.download # {}
    /\ DOMAIN download = {}

====
